---- MODULE Spec2Model ----
(***************************************************************************)
(* Model of time_series_visualizer.py: the module-level load and outlier   *)
(* filter (lines 11-19) and the three renderers draw_line_plot,            *)
(* draw_bar_plot and draw_box_plot.                                         *)
(*                                                                         *)
(* Numbers that pandas computes as floats are kept exact: a quantile or a  *)
(* mean is the rational [num, den]; NaN is the value with den = 0.         *)
(* Python objects live in `frames`, keyed by the name bound to them, so    *)
(* that a copy and an alias are different things.                          *)
(***************************************************************************)
EXTENDS Integers, Sequences, FiniteSets, TLC

VARIABLES csv, pc, frames, files, result

vars == <<csv, pc, frames, files, result>>

-----------------------------------------------------------------------------
(* Bounds and inputs *)

MaxRows == 4

MaxUniform == 42

Values == {1, 2, 4}

\* date fields as they stand in the file: <<year, month, day>>
Dates == {<<2016, 5, 9>>, <<2017, 1, 2>>, <<2017, 5, 10>>}

\* the rows of the files the renderers are run on
PlotRows ==
    {r \in [date : Dates, value : {1, 2}] : r.date = <<2017, 5, 10>> => r.value = 2}

PlotCsv == UNION {[1..n -> PlotRows] : n \in 0..MaxRows}

\* the files the filter alone is run on: two dates, three values
FilterCsv ==
    UNION {[1..n -> [date : {<<2016, 5, 9>>, <<2017, 1, 2>>}, value : Values]] :
              n \in 0..MaxRows}

ScenarioCsv ==
    << [date |-> <<2016, 5, 9>>,  value |-> 1201],
       [date |-> <<2016, 5, 10>>, value |-> 2329],
       [date |-> <<2016, 5, 11>>, value |-> 1716] >>

\* n rows, all of value v except row p, which has the other value m
UniformCsv(n, p, v, m) ==
    [i \in 1..n |-> [date  |-> <<2016, 5, 9>>,
                     value |-> IF i = p THEN m ELSE v]]

UniformInputs ==
    {UniformCsv(t[1], t[2], t[3], t[4]) :
        t \in {u \in (2..MaxUniform) \X (1..MaxUniform) \X Values \X Values :
                  u[2] <= u[1] /\ u[4] # u[3]}}

-----------------------------------------------------------------------------
(* Values *)

NaN == [num |-> 0, den |-> 0]

isnan(q) == q.den = 0

\* v >= q and v <= q for an integer v and a float q; False against NaN
ge(v, q) == ~isnan(q) /\ v * q.den >= q.num

le(v, q) == ~isnan(q) /\ v * q.den <= q.num

NoFrame == [index_name |-> "None", index |-> <<>>, columns |-> <<>>, data |-> <<>>]

NoFile == [kind |-> "none"]

FileNames == {"line_plot.png", "bar_plot.png", "box_plot.png"}

NoResult == [call |-> "None", exc |-> "None"]

-----------------------------------------------------------------------------
(* pandas: read_csv, quantile, boolean indexing *)

Timestamp(text) == [year |-> text[1], month |-> text[2], day |-> text[3]]

read_csv(text) ==
    [index_name |-> "date",
     index      |-> [i \in 1..Len(text) |-> Timestamp(text[i].date)],
     columns    |-> <<"value">>,
     data       |-> [value |-> [i \in 1..Len(text) |-> text[i].value]]]

RECURSIVE insert(_, _)
insert(s, x) ==
    IF s = <<>> THEN <<x>>
    ELSE IF x <= Head(s) THEN <<x>> \o s
    ELSE <<Head(s)>> \o insert(Tail(s), x)

RECURSIVE sort(_)
sort(s) == IF s = <<>> THEN <<>> ELSE insert(sort(Tail(s)), Head(s))

\* Series.quantile(qn/qd), interpolation='lower'
quantile_lower(vals, qn, qd) ==
    IF Len(vals) = 0 THEN NaN
    ELSE LET s  == sort(vals)
             lo == ((Len(vals) - 1) * qn) \div qd
         IN  [num |-> s[lo + 1] * qd, den |-> qd]

\* Series.quantile(qn/qd), interpolation='linear' (the default)
quantile(vals, qn, qd) ==
    IF Len(vals) = 0 THEN NaN
    ELSE LET s     == sort(vals)
             pos   == (Len(vals) - 1) * qn
             lo    == pos \div qd
             gamma == pos % qd
             hi    == IF gamma = 0 THEN lo ELSE lo + 1
         IN  [num |-> s[lo + 1] * qd + gamma * (s[hi + 1] - s[lo + 1]),
              den |-> qd]

RECURSIVE where(_, _)
\* the positions at which mask is True, ascending
where(mask, i) ==
    IF i > Len(mask) THEN <<>>
    ELSE (IF mask[i] THEN <<i>> ELSE <<>>) \o where(mask, i + 1)

take(s, pos) == [i \in 1..Len(pos) |-> s[pos[i]]]

\* d[mask]
getitem_mask(d, mask) ==
    LET pos == where(mask, 1)
    IN  [d EXCEPT !.index = take(d.index, pos),
                  !.data  = [c \in DOMAIN d.data |-> take(d.data[c], pos)]]

\* the filter with the upper quantile taken from the already cut table
OutlierFilter_sequential(d) ==
    LET v    == d.data["value"]
        q_lo == quantile(v, 25, 1000)
        d1   == getitem_mask(d, [i \in 1..Len(v) |-> ge(v[i], q_lo)])
        v1   == d1.data["value"]
        q_hi == quantile(v1, 975, 1000)
    IN  getitem_mask(d1, [i \in 1..Len(v1) |-> le(v1[i], q_hi)])

\* df[(df['value'] >= df['value'].quantile(0.025)) &
\*    (df['value'] <= df['value'].quantile(0.975))]
OutlierFilter(d) ==
    LET v    == d.data["value"]
        q_lo == quantile(v, 25, 1000)
        q_hi == quantile(v, 975, 1000)
    IN  getitem_mask(d, [i \in 1..Len(v) |-> ge(v[i], q_lo) /\ le(v[i], q_hi)])

-----------------------------------------------------------------------------
(* Module import: lines 11 and 18-19 *)

Load ==
    /\ pc = "load"
    /\ frames' = [frames EXCEPT !["df"] = read_csv(csv)]
    /\ pc' = "filter"
    /\ UNCHANGED <<csv, files, result>>

Filter ==
    /\ pc = "filter"
    /\ frames' = [frames EXCEPT !["df"] = OutlierFilter(frames["df"])]
    /\ pc' = "ready"
    /\ UNCHANGED <<csv, files, result>>

InitState ==
    /\ pc = "load"
    /\ frames = [n \in {"df", "df_bar", "df_box"} |-> NoFrame]
    /\ files = [n \in FileNames |-> NoFile]
    /\ result = NoResult

-----------------------------------------------------------------------------
(* pandas: copy, column assignment, reset_index, groupby, unstack *)

\* the local name bound to the same object as the module-level one
copy_alias(h, src, dst) == [heap |-> h, ref |-> src]

\* src.copy(), bound to the local name dst
copy(h, src, dst) == [heap |-> [h EXCEPT ![dst] = h[src]], ref |-> dst]

contains(s, x) == \E i \in 1..Len(s) : s[i] = x

\* d[col] = vals, on the object itself
setitem(d, col, vals) ==
    [d EXCEPT !.columns = IF contains(d.columns, col) THEN @ ELSE Append(@, col),
              !.data    = (col :> vals) @@ @]

\* the column reset_index moves the index to
reset_index_name(d) ==
    IF d.index_name # "None" THEN d.index_name
    ELSE IF contains(d.columns, "index") THEN "level_0" ELSE "index"

\* d.reset_index(inplace=True), for a name that is not yet a column
reset_index(d) ==
    [index_name |-> "None",
     index      |-> [i \in 1..Len(d.index) |-> i - 1],
     columns    |-> <<reset_index_name(d)>> \o d.columns,
     data       |-> (reset_index_name(d) :> d.index) @@ d.data]

key_lt(a, b) == a[1] < b[1] \/ (a[1] = b[1] /\ a[2] < b[2])

RECURSIVE sort_keys(_)
sort_keys(S) ==
    IF S = {} THEN <<>>
    ELSE LET k == CHOOSE a \in S : \A b \in S \ {a} : key_lt(a, b)
         IN  <<k>> \o sort_keys(S \ {k})

RECURSIVE group_sum(_, _, _, _, _)
\* <<sum, count>> of vals over the rows i.. whose (year, month) is key
group_sum(years, months, vals, key, i) ==
    IF i > Len(vals) THEN <<0, 0>>
    ELSE LET rest == group_sum(years, months, vals, key, i + 1)
         IN  IF <<years[i], months[i]>> = key
             THEN <<rest[1] + vals[i], rest[2] + 1>>
             ELSE rest

\* d.groupby(['year', 'month'])['value'].mean(): one entry per key, keys sorted
groupby_mean(d) ==
    LET years  == d.data["year"]
        months == d.data["month"]
        vals   == d.data["value"]
        keys   == sort_keys({<<years[i], months[i]>> : i \in 1..Len(vals)})
    IN  [j \in 1..Len(keys) |->
            LET g == group_sum(years, months, vals, keys[j], 1)
            IN  [key |-> keys[j], mean |-> [num |-> g[1], den |-> g[2]]]]

RECURSIVE sort_set(_)
sort_set(S) ==
    IF S = {} THEN <<>>
    ELSE LET k == CHOOSE a \in S : \A b \in S : a <= b
         IN  <<k>> \o sort_set(S \ {k})

cell(series, y, m, fill) ==
    IF \E j \in 1..Len(series) : series[j].key = <<y, m>>
    THEN series[CHOOSE j \in 1..Len(series) : series[j].key = <<y, m>>].mean
    ELSE fill

unstack_with(series, fill) ==
    LET index   == sort_set({series[j].key[1] : j \in 1..Len(series)})
        columns == sort_set({series[j].key[2] : j \in 1..Len(series)})
    IN  [index_name |-> "year",
         index      |-> index,
         columns    |-> columns,
         data       |-> [m \in {columns[c] : c \in 1..Len(columns)} |->
                            [r \in 1..Len(index) |-> cell(series, index[r], m, fill)]]]

\* series.unstack(fill_value=0)
unstack_fill0(series) == unstack_with(series, [num |-> 0, den |-> 1])

\* series.unstack(): rows = level 0, columns = level 1, missing cells NaN
unstack(series) == unstack_with(series, NaN)

-----------------------------------------------------------------------------
(* matplotlib / seaborn *)

Min(a, b) == IF a <= b THEN a ELSE b

months ==
    <<"January", "February", "March", "April", "May", "June", "July",
      "August", "September", "October", "November", "December">>

month_order ==
    <<"Jan", "Feb", "Mar", "Apr", "May", "Jun",
      "Jul", "Aug", "Sep", "Oct", "Nov", "Dec">>

\* d.strftime('%b'), C locale
strftime_b(d) ==
    CASE d.month = 1 -> "Jan" [] d.month = 2 -> "Feb" [] d.month = 3 -> "Mar"
      [] d.month = 4 -> "Apr" [] d.month = 5 -> "May" [] d.month = 6 -> "Jun"
      [] d.month = 7 -> "Jul" [] d.month = 8 -> "Aug" [] d.month = 9 -> "Sep"
      [] d.month = 10 -> "Oct" [] d.month = 11 -> "Nov" [] d.month = 12 -> "Dec"

\* grid.plot(kind='bar', ax=ax): one bar container per column, in column order
plot_bar(grid) ==
    [c \in 1..Len(grid.columns) |->
        [column |-> grid.columns[c], heights |-> grid.data[grid.columns[c]]]]

\* ax.legend(title=..., labels=...): the labels are zipped with the handles
legend(title, handles, labels) ==
    [title   |-> title,
     entries |-> [i \in 1..Min(Len(handles), Len(labels)) |->
                     [handle |-> handles[i].column, label |-> labels[i]]]]

RECURSIVE unique(_, _)
\* the distinct values of s in order of first appearance
unique(s, seen) ==
    IF s = <<>> THEN <<>>
    ELSE IF Head(s) \in seen THEN unique(Tail(s), seen)
    ELSE <<Head(s)>> \o unique(Tail(s), seen \cup {Head(s)})

None == <<>>

\* seaborn's categorical_order: the given order, else the distinct values
\* (sorted when numeric)
categorical_order(vector, order, numeric) ==
    IF order # None THEN order
    ELSE IF numeric THEN sort_set({vector[i] : i \in 1..Len(vector)})
    ELSE unique(vector, {})

\* sns.boxplot(x=x, y='value', data=d, order=order): one box per group name
boxplot(d, x, order, numeric) ==
    LET names == categorical_order(d.data[x], order, numeric)
        y     == d.data["value"]
    IN  [order |-> names,
         boxes |-> [g \in 1..Len(names) |->
                       take(y, where([i \in 1..Len(y) |-> d.data[x][i] = names[g]], 1))]]

\* the month-wise box plot without order=
month_boxplot_unordered(d) == boxplot(d, "month", None, FALSE)

\* sns.boxplot(x='month', y='value', data=df_box, ax=axes[1], order=month_order)
month_boxplot(d) == boxplot(d, "month", month_order, FALSE)

\* sns.boxplot(x='year', y='value', data=df_box, ax=axes[0])
year_boxplot(d) == boxplot(d, "year", None, TRUE)

\* the file is written whether or not the body raised
savefig_always(fs, name, run) == [fs EXCEPT ![name] = run.fig]

\* fig.savefig(name), the statement before return: reached when nothing raised
savefig(fs, name, run) ==
    IF run.exc = "None" THEN [fs EXCEPT ![name] = run.fig] ELSE fs

-----------------------------------------------------------------------------
(* The renderers: what a call does to the heap, the figure it builds and  *)
(* the exception it raises                                                 *)

line_run(h) ==
    [heap |-> h,
     exc  |-> "None",
     fig  |-> [kind |-> "line", figsize |-> <<15, 5>>,
               x |-> h["df"].index, y |-> h["df"].data["value"],
               color |-> "red", linewidth |-> 1,
               title  |-> "Daily freeCodeCamp Forum Page Views 5/2016-12/2019",
               xlabel |-> "Date", ylabel |-> "Page Views"]]

bar_run(h) ==
    LET c  == copy(h, "df", "df_bar")
        d0 == c.heap[c.ref]
    IN  IF d0.index_name # "date"
        THEN [heap |-> c.heap, exc |-> "AttributeError", fig |-> NoFile]
        ELSE
        LET d1   == setitem(d0, "year", [i \in 1..Len(d0.index) |-> d0.index[i].year])
            d2   == setitem(d1, "month", [i \in 1..Len(d1.index) |-> d1.index[i].month])
            h2   == [c.heap EXCEPT ![c.ref] = d2]
            grid == unstack(groupby_mean(d2))
            bars == plot_bar(grid)
        IN  IF Len(grid.columns) = 0
            \* no numeric data to plot: raised by the plot call at line 70, after
            \* plt.subplots has made the (still empty) figure
            THEN [heap |-> h2, exc |-> "TypeError",
                  fig |-> [kind |-> "bar", figsize |-> <<10, 8>>]]
            ELSE [heap |-> h2,
                  exc  |-> "None",
                  fig  |-> [kind |-> "bar", figsize |-> <<10, 8>>,
                            grid |-> grid, xticks |-> grid.index, bars |-> bars,
                            xlabel |-> "Years", ylabel |-> "Average Page Views",
                            legend |-> legend("Months", bars, months)]]

box_run(h, raises_on_empty) ==
    LET c  == copy(h, "df", "df_box")
        d0 == c.heap[c.ref]
    IN  IF contains(d0.columns, reset_index_name(d0))
        THEN [heap |-> c.heap, exc |-> "ValueError", fig |-> NoFile]
        ELSE
        LET d1 == reset_index(d0)
        IN  IF ~contains(d1.columns, "date")
            THEN [heap |-> [c.heap EXCEPT ![c.ref] = d1],
                  exc |-> "AttributeError", fig |-> NoFile]
            ELSE
            LET date == d1.data["date"]
                d2   == setitem(d1, "year", [i \in 1..Len(date) |-> date[i].year])
                d3   == setitem(d2, "month", [i \in 1..Len(date) |-> strftime_b(date[i])])
                h3   == [c.heap EXCEPT ![c.ref] = d3]
            IN  IF Len(date) = 0 /\ raises_on_empty
                \* raised by the first boxplot call, after plt.subplots
                THEN [heap |-> h3, exc |-> "ValueError",
                      fig |-> [kind |-> "box", figsize |-> <<20, 8>>]]
                ELSE [heap |-> h3,
                      exc  |-> "None",
                      fig  |-> [kind |-> "box", figsize |-> <<20, 8>>,
                                axes |-> <<
                                  [title  |-> "Year-wise Box Plot (Trend)",
                                   xlabel |-> "Year", ylabel |-> "Page Views",
                                   plot   |-> year_boxplot(d3)],
                                  [title  |-> "Month-wise Box Plot (Seasonality)",
                                   xlabel |-> "Month", ylabel |-> "Page Views",
                                   plot   |-> month_boxplot(d3)] >>]]

\* the locals of a call are gone when it returns or raises
return(h, local) == [h EXCEPT ![local] = NoFrame]

draw_line_plot ==
    /\ pc = "ready"
    /\ LET run == line_run(frames)
       IN  /\ frames' = run.heap
           /\ files' = savefig(files, "line_plot.png", run)
           /\ result' = [call |-> "draw_line_plot", exc |-> run.exc]
    /\ UNCHANGED <<csv, pc>>

draw_bar_plot ==
    /\ pc = "ready"
    /\ LET run == bar_run(frames)
       IN  /\ frames' = return(run.heap, "df_bar")
           /\ files' = savefig(files, "bar_plot.png", run)
           /\ result' = [call |-> "draw_bar_plot", exc |-> run.exc]
    /\ UNCHANGED <<csv, pc>>

\* seaborn before 0.13 raises on a table without rows, 0.13 draws empty axes
draw_box_plot ==
    /\ pc = "ready"
    /\ \E raises_on_empty \in BOOLEAN :
         LET run == box_run(frames, raises_on_empty)
         IN  /\ frames' = return(run.heap, "df_box")
             /\ files' = savefig(files, "box_plot.png", run)
             /\ result' = [call |-> "draw_box_plot", exc |-> run.exc]
    /\ UNCHANGED <<csv, pc>>

Init == csv \in PlotCsv \cup {ScenarioCsv} /\ InitState

Next == Load \/ Filter \/ draw_line_plot \/ draw_bar_plot \/ draw_box_plot

Spec == Init /\ [][Next]_vars

\* the import alone, on the short tables and on long ones
InitFilter == csv \in FilterCsv \cup {ScenarioCsv} \cup UniformInputs /\ InitState

NextFilter == Load \/ Filter

SpecFilter == InitFilter /\ [][NextFilter]_vars

-----------------------------------------------------------------------------
(* Properties *)

\* the rows of the module-level table, as (date fields, value) pairs
FilteredTable ==
    LET d == frames["df"]
    IN  [i \in 1..Len(d.index) |->
            [date  |-> <<d.index[i].year, d.index[i].month, d.index[i].day>>,
             value |-> d.data["value"][i]]]

TableValues == [i \in 1..Len(csv) |-> csv[i].value]

InRange(v) ==
    /\ ge(v, quantile(TableValues, 25, 1000))
    /\ le(v, quantile(TableValues, 975, 1000))

\* C1: once the filter has run, the module-level table holds exactly the rows
\* of the loaded table whose value lies between the 2.5% and the 97.5%
\* quantile of the loaded table's values, bounds included, in file order; so
\* it is never longer than the loaded table.
C1_FilterKeepsInRangeRows ==
    pc = "ready" =>
        /\ FilteredTable = SelectSeq(csv, LAMBDA r : InRange(r.value))
        /\ Len(FilteredTable) <= Len(csv)

C1_Witness ==
    /\ pc = "ready"
    /\ Len(csv) >= 41
    /\ Len(FilteredTable) = Len(csv) - 1

FullMonthNames ==
    <<"January", "February", "March", "April", "May", "June", "July",
      "August", "September", "October", "November", "December">>

\* C2: in a saved bar chart the legend lists the twelve full month names in
\* calendar order, and the bars drawn from month number m carry the m-th name.
C2_LegendMatchesMonths ==
    files["bar_plot.png"] # NoFile =>
        LET entries == files["bar_plot.png"].legend.entries
        IN  /\ Len(entries) = 12
            /\ \A i \in 1..Len(entries) :
                 /\ entries[i].label = FullMonthNames[i]
                 /\ entries[i].label = FullMonthNames[entries[i].handle]

\* C3: after the filter, no step changes the module-level table: it keeps its
\* rows, its single column 'value' and its date index through every render
\* call, successful or not.
C3_FilteredTableReadOnly ==
    [][pc = "ready" =>
          /\ frames'["df"] = frames["df"]
          /\ frames'["df"].columns = <<"value">>
          /\ DOMAIN frames'["df"].data = {"value"}
          /\ frames'["df"].index_name = "date"
          /\ frames'["df_bar"] = NoFrame
          /\ frames'["df_box"] = NoFrame]_vars

C3_Witness ==
    /\ \A n \in FileNames : files[n] # NoFile
    /\ Len(frames["df"].index) >= 2
    /\ result.call = "draw_box_plot"

\* C4 as stated: for the three-row scenario table the filter removes no row.
C4_ScenarioUnchanged ==
    (pc = "ready" /\ csv = ScenarioCsv) => FilteredTable = csv

\* C4 amended: for the three-row scenario table the filter removes the rows
\* with the smallest and the largest value and keeps only (2016-05-11, 1716).
C4_ScenarioKeepsMiddleRow ==
    (pc = "ready" /\ csv = ScenarioCsv) =>
        FilteredTable = << [date |-> <<2016, 5, 11>>, value |-> 1716] >>

C4_Witness ==
    /\ pc = "ready"
    /\ csv = ScenarioCsv
    /\ Len(FilteredTable) = 1

\* row p holds a value larger than the one value all other rows share
ExtremeAt(p) ==
    /\ Len(csv) >= 2
    /\ \A i, j \in (1..Len(csv)) \ {p} : csv[i].value = csv[j].value
    /\ \A i \in (1..Len(csv)) \ {p} : csv[p].value > csv[i].value

\* C5: when all rows but one share a value and the remaining row has a larger
\* one, that row is not in the filtered table.
C5_ExtremeRowExcluded ==
    pc = "ready" =>
        \A p \in 1..Len(csv) :
            ExtremeAt(p) =>
                \A j \in 1..Len(FilteredTable) :
                    FilteredTable[j].value # csv[p].value

C5_Witness ==
    /\ pc = "ready"
    /\ Len(csv) >= 42
    /\ ExtremeAt(Len(csv))
    /\ Len(FilteredTable) = Len(csv) - 1

\* C6: in a saved box chart the groups of the month-wise plot are Jan..Dec in
\* calendar order, whatever the rows are.
C6_MonthBoxOrder ==
    files["box_plot.png"] # NoFile =>
        files["box_plot.png"].axes[2].plot.order =
            <<"Jan", "Feb", "Mar", "Apr", "May", "Jun",
              "Jul", "Aug", "Sep", "Oct", "Nov", "Dec">>

C6_Witness ==
    /\ files["box_plot.png"] # NoFile
    /\ Len(FilteredTable) >= 2
    /\ FilteredTable[1].date[2] = 5
    /\ \E i \in 2..Len(FilteredTable) : FilteredTable[i].date[2] = 1

FilteredEmpty == pc = "ready" /\ Len(frames["df"].index) = 0

\* C7 as stated: with no row left after filtering nothing completes normally
\* (not the filter, not a renderer) and no image file is written.
C7_EmptyIsFatal ==
    FilteredEmpty =>
        /\ result.call # "None"
        /\ result.exc # "None"
        /\ \A n \in FileNames : files[n] = NoFile

\* C7 amended: with no row left after filtering, draw_bar_plot raises and
\* bar_plot.png is never written; the filter itself has completed, and
\* draw_line_plot completes and writes line_plot.png.
C7_EmptyFailsBarOnly ==
    FilteredEmpty =>
        /\ files["bar_plot.png"] = NoFile
        /\ result.call = "draw_bar_plot" => result.exc # "None"
        /\ result.call = "draw_line_plot" =>
              (result.exc = "None" /\ files["line_plot.png"] # NoFile)

C7_Witness ==
    /\ FilteredEmpty
    /\ Len(csv) = 2
    /\ result.call = "draw_bar_plot"
    /\ files["line_plot.png"] # NoFile

OutputFile(call) ==
    CASE call = "draw_line_plot" -> "line_plot.png"
      [] call = "draw_bar_plot"  -> "bar_plot.png"
      [] call = "draw_box_plot"  -> "box_plot.png"
      [] OTHER -> "None"

\* C8: a step changes an image file only if it is a render call that raised
\* nothing and the file is that renderer's own; a call that returns normally
\* has written its file.
C8_OnlyOwnFileOnSuccess ==
    [][/\ \A n \in FileNames :
            files'[n] # files[n] =>
                (result'.exc = "None" /\ n = OutputFile(result'.call))
       /\ (pc = "ready" /\ result'.exc = "None") =>
            files'[OutputFile(result'.call)] # NoFile]_vars

C8_Witness ==
    /\ result.call = "draw_bar_plot"
    /\ result.exc # "None"
    /\ files["line_plot.png"] # NoFile
    /\ files["bar_plot.png"] = NoFile

RECURSIVE SumValues(_)
SumValues(S) ==
    IF S = {} THEN 0
    ELSE LET i == CHOOSE j \in S : TRUE
         IN  FilteredTable[i].value + SumValues(S \ {i})

RowsOf(y, m) ==
    {i \in 1..Len(FilteredTable) :
        FilteredTable[i].date[1] = y /\ FilteredTable[i].date[2] = m}

\* C9: the grid of a saved bar chart has one row per distinct year of the
\* filtered table; the cell of year y and month m is the mean of the values of
\* the filtered rows of that year and month, and a cell without rows is NaN
\* or absent, never 0.
C9_GridHoldsMonthlyMeans ==
    files["bar_plot.png"] # NoFile =>
        LET grid == files["bar_plot.png"].grid
        IN  /\ \A r, q \in 1..Len(grid.index) :
                 r < q => grid.index[r] < grid.index[q]
            /\ {grid.index[r] : r \in 1..Len(grid.index)} =
                 {FilteredTable[i].date[1] : i \in 1..Len(FilteredTable)}
            /\ \A r \in 1..Len(grid.index) : \A m \in 1..12 :
                 LET S == RowsOf(grid.index[r], m)
                 IN  IF S = {}
                     THEN m \in DOMAIN grid.data => isnan(grid.data[m][r])
                     ELSE /\ m \in DOMAIN grid.data
                          /\ grid.data[m][r].den = Cardinality(S)
                          /\ grid.data[m][r].num = SumValues(S)

C9_Witness ==
    /\ files["bar_plot.png"] # NoFile
    /\ files["bar_plot.png"].grid.index = <<2016, 2017>>
    /\ files["bar_plot.png"].grid.columns = <<1, 5>>
    /\ isnan(files["bar_plot.png"].grid.data[1][1])
    /\ files["bar_plot.png"].grid.data[5][1] = [num |-> 3, den |-> 2]

\* C10: the filtered table is empty exactly when the loaded table is empty or
\* has two rows with different values.
C10_EmptyIffTwoDistinct ==
    pc = "ready" =>
        (Len(FilteredTable) = 0 <=>
            \/ Len(csv) = 0
            \/ (Len(csv) = 2 /\ csv[1].value # csv[2].value))

C10_Witness ==
    /\ pc = "ready"
    /\ Len(csv) = 2
    /\ csv[1].value # csv[2].value
    /\ Len(FilteredTable) = 0

====
